---------------------------- MODULE Spec2Model ----------------------------
(***************************************************************************)
(* Model of the weather-agent service: the FastAPI facade and query runner *)
(* of src/api/main.py and the three tool resolvers of                      *)
(* src/weather_agent/agent.py.                                             *)
(*                                                                         *)
(* The agent runtime (Runner, InMemorySessionService), the geocoder, the   *)
(* timezone index and the forecast provider are external collaborators:    *)
(* every outcome they can hand back to this code (a value, nothing, an     *)
(* exception) is a nondeterministic choice.                                *)
(***************************************************************************)
EXTENDS Integers, Sequences, FiniteSets, TLC

(***************************************************************************)
(* Bounds of the model.                                                    *)
(***************************************************************************)
MaxSessions == 3      \* sessions the session service creates in one run
MaxEvents == 2        \* events one agent invocation yields
MaxPoints == 2        \* hourly values in one forecast response

(***************************************************************************)
(* Values.                                                                 *)
(***************************************************************************)
PyNone == "<None>"                    \* Python's None
Users == {"u1", "u2"}                 \* request.user_id
ClientNames == {"default_session"}    \* a session id the client made up
\* The ids create_session generates (uuid4): fresh, never a client's name.
Uuids == <<"uuid-1", "uuid-2", "uuid-3", "uuid-4", "uuid-5", "uuid-6">>
Texts == {"A", "B"}                   \* text of a content part
Slots == {1, 2}                       \* requests in flight at once

\* src/api/main.py:139
NO_RESPONSE == "No response received."

\* The request bodies a client posts: query is absent, "" or a text.
Queries == {PyNone, "", "weather?"}

\* An event of the runner: is_final_response(), whether content.parts is
\* present and non-empty, and parts[0].text (None for a non-text part).
Events ==
    {[final |-> f, parts |-> FALSE, text |-> PyNone] : f \in BOOLEAN}
    \cup [final : BOOLEAN, parts : {TRUE}, text : Texts \cup {PyNone}]

RECURSIVE SeqsUpTo(_, _)
SeqsUpTo(S, n) ==
    IF n = 0 THEN {<<>>}
    ELSE LET shorter == SeqsUpTo(S, n - 1)
         IN  shorter \cup {Append(s, e) : s \in {t \in shorter : Len(t) = n - 1}, e \in S}

\* What runner.run hands back: the events it yields and whether the
\* generator raises instead of ending after them.
EventStreams == [events : SeqsUpTo(Events, MaxEvents), raises : BOOLEAN]

VARIABLES
    GOOGLE_API_KEY,     \* api.config: TRUE iff the credential is set
    lifecycle,          \* "starting" | "serving" | "failed"
    agent,              \* module globals of src/api/main.py
    runner,
    session_service,
    initCount,          \* completed constructions of agent/runner/service
    sessions,           \* InMemorySessionService: set of <<user_id, id>>
    created,            \* number of ids create_session has generated
    req,                \* per slot: the request being handled
    last,               \* what the HTTP caller of the last finished request got
    resolved,           \* history: <<user_id, session_id, actual_session_id>>
    \* one run of the event loop of run_query on a given stream
    events_in,          \* what runner.run yields
    loop_pc,            \* "ready" | "done"
    loop_out,           \* what run_query hands back
    \* one call of a tool of src/weather_agent/agent.py
    tool,               \* the tool called, "" when none
    tool_pc,            \* "idle" | "fetching" | "done"
    external,           \* what the external call handed back
    attempts,           \* requests the retrying session has sent
    tool_result         \* what the tool hands to the agent

apiVars == <<GOOGLE_API_KEY, lifecycle, agent, runner, session_service, initCount,
             sessions, created, req, last, resolved>>

loopVars == <<events_in, loop_pc, loop_out>>

toolVars == <<tool, tool_pc, external, attempts, tool_result>>

vars == <<apiVars, loopVars, toolVars>>

Idle == [pc |-> "idle", query |-> PyNone, user_id |-> PyNone, session_id |-> PyNone]

NoLast ==
    [kind |-> "none", query |-> PyNone, user_id |-> PyNone, session_id |-> PyNone,
     outcome |-> PyNone, status |-> 0, detail |-> PyNone,
     response |-> PyNone, resp_user |-> PyNone, resp_session |-> PyNone,
     invoked |-> PyNone, failure |-> "none"]

ApiInit ==
    /\ GOOGLE_API_KEY \in BOOLEAN
    /\ lifecycle = "starting"
    /\ agent = PyNone
    /\ runner = PyNone
    /\ session_service = PyNone
    /\ initCount = 0
    /\ sessions = {}
    /\ created = 0
    /\ req = [s \in Slots |-> Idle]
    /\ last = NoLast
    /\ resolved = {}

NoStream == [events |-> <<>>, raises |-> FALSE]

NoOutcome ==
    [kind |-> PyNone, status |-> 0, detail |-> PyNone, response |-> PyNone,
     user_id |-> PyNone, session_id |-> PyNone]

LoopIdle ==
    /\ events_in = NoStream
    /\ loop_pc = "done"
    /\ loop_out = NoOutcome

NoExternal ==
    [kind |-> PyNone, latitude |-> 0, longitude |-> 0, timezone |-> PyNone,
     time |-> 0, time_end |-> 0, interval |-> 0, values |-> <<>>]

NoResult ==
    [raised |-> FALSE, status |-> PyNone, error_message |-> PyNone,
     coordinates |-> <<>>, timezone |-> PyNone, local_time |-> 0,
     report |-> <<>>]

ToolIdle ==
    /\ tool = ""
    /\ tool_pc = "idle"
    /\ external = NoExternal
    /\ attempts = 0
    /\ tool_result = NoResult

Init == ApiInit /\ LoopIdle /\ ToolIdle

(***************************************************************************)
(* Startup: lifespan and initialize_agent.                                 *)
(***************************************************************************)
\* initialize_agent raises ValueError when the credential is absent, and
\* otherwise binds the three module globals.
initialize_agent ==
    IF ~GOOGLE_API_KEY
    THEN [raised |-> TRUE, agent |-> agent, runner |-> runner,
          session_service |-> session_service]
    ELSE [raised |-> FALSE, agent |-> "LlmAgent", runner |-> "Runner",
          session_service |-> "InMemorySessionService"]

\* A lifespan that logs the failure and goes on to serve.
lifespan_swallows ==
    LET r == initialize_agent
    IN  /\ agent' = r.agent
        /\ runner' = r.runner
        /\ session_service' = r.session_service
        /\ initCount' = IF r.raised THEN initCount ELSE initCount + 1
        /\ lifecycle' = "serving"

\* lifespan: initialize_agent, and re-raise what it raises, which fails the
\* startup; the application serves only after the yield.
lifespan ==
    LET r == initialize_agent
    IN  /\ agent' = r.agent
        /\ runner' = r.runner
        /\ session_service' = r.session_service
        /\ initCount' = IF r.raised THEN initCount ELSE initCount + 1
        /\ lifecycle' = IF r.raised THEN "failed" ELSE "serving"

Startup ==
    /\ lifecycle = "starting"
    /\ lifespan
    /\ UNCHANGED <<GOOGLE_API_KEY, sessions, created, req, last, resolved>>
    /\ UNCHANGED <<loopVars, toolVars>>

(***************************************************************************)
(* run_query: the event loop.                                              *)
(***************************************************************************)
RECURSIVE scan_keeps_going(_, _, _)
\* The loop without its break: every final event with parts overwrites
\* response_text.
scan_keeps_going(stream, i, response_text) ==
    IF i > Len(stream.events)
    THEN [raised |-> stream.raises, text |-> response_text]
    ELSE LET event == stream.events[i]
         IN  IF event.final /\ event.parts
             THEN scan_keeps_going(stream, i + 1, event.text)
             ELSE scan_keeps_going(stream, i + 1, response_text)

RECURSIVE scan_events(_, _, _)
\* for event in events: from the i-th event on, with response_text so far.
\* A final event with parts sets response_text and breaks; a final event
\* without parts, like a non-final one, is passed over. The generator may
\* raise instead of ending.
scan_events(stream, i, response_text) ==
    IF i > Len(stream.events)
    THEN [raised |-> stream.raises, text |-> response_text]
    ELSE LET event == stream.events[i]
         IN  IF event.final
             THEN IF event.parts
                  THEN [raised |-> FALSE, text |-> event.text]
                  ELSE scan_events(stream, i + 1, response_text)
             ELSE scan_events(stream, i + 1, response_text)

\* The loop with response_text left unset before it.
drain_unset(stream) == scan_events(stream, 1, PyNone)

\* response_text = "No response received." and the loop over the events.
drain_events(stream) == scan_events(stream, 1, NO_RESPONSE)

(***************************************************************************)
(* What a call hands to its caller: a value or an exception.               *)
(***************************************************************************)
Outcome(kind, status, detail, response, user_id, session_id) ==
    [kind |-> kind, status |-> status, detail |-> detail, response |-> response,
     user_id |-> user_id, session_id |-> session_id]

Return(text, session_id) == Outcome("return", 0, PyNone, text, PyNone, session_id)

Raise(what) == Outcome("Exception", 0, what, PyNone, PyNone, PyNone)

HTTPException(status, detail) ==
    Outcome("HTTPException", status, detail, PyNone, PyNone, PyNone)

\* src/api/main.py:106, 155, 204 (status.HTTP_500_INTERNAL_SERVER_ERROR)
HTTP_500_INTERNAL_SERVER_ERROR == 500

\* Every result the event loop has over the streams the runner can yield.
DrainResults == {drain_events(stream) : stream \in EventStreams}

\* The try block of run_query from runner.run on, given how the event loop
\* ended: the answer and the session id, or the exception the generator
\* raised.
run_agent(actual_session_id, drained) ==
    IF drained.raised THEN Raise("runner")
    ELSE Return(drained.text, actual_session_id)

\* except Exception of run_query: any exception of the try block becomes
\* an HTTPException with status 500.
run_query_except(x) ==
    IF x.kind = "Exception"
    THEN HTTPException(HTTP_500_INTERNAL_SERVER_ERROR, "Error processing query")
    ELSE x

\* The guard of run_query.
not_initialized == runner = PyNone \/ session_service = PyNone

\* QueryResponse(response=..., user_id=..., session_id=...): response is a
\* required str, so None does not validate.
QueryResponse(response, user_id, session_id) ==
    IF response = PyNone THEN Raise("ValidationError")
    ELSE Outcome("QueryResponse", 200, PyNone, response, user_id, session_id)

\* The response echoes the session id of the request.
process_query_echoes(request, rq) ==
    IF rq.kind = "return"
    THEN LET built == QueryResponse(rq.response, request.user_id, request.session_id)
         IN  IF built.kind = "Exception"
             THEN HTTPException(HTTP_500_INTERNAL_SERVER_ERROR, "Unexpected error")
             ELSE built
    ELSE IF rq.kind = "HTTPException" THEN rq
    ELSE HTTPException(HTTP_500_INTERNAL_SERVER_ERROR, "Unexpected error")

\* process_query without its except Exception clause.
process_query_uncaught(request, rq) ==
    IF rq.kind = "return"
    THEN QueryResponse(rq.response, request.user_id, rq.session_id)
    ELSE rq

\* process_query, given what run_query handed back: build the response;
\* an HTTPException is re-raised, any other exception becomes a 500.
process_query(request, rq) ==
    IF rq.kind = "return"
    THEN LET built == QueryResponse(rq.response, request.user_id, rq.session_id)
         IN  IF built.kind = "Exception"
             THEN HTTPException(HTTP_500_INTERNAL_SERVER_ERROR, "Unexpected error")
             ELSE built
    ELSE IF rq.kind = "HTTPException" THEN rq
    ELSE HTTPException(HTTP_500_INTERNAL_SERVER_ERROR, "Unexpected error")

\* QueryRequest: query is a required str (Field(...)); nothing constrains
\* its length.
QueryRequest_valid(query) == query # PyNone

\* The request is over: the caller gets what process_query hands back.
Finish(s, rq, invoked, failure) ==
    LET r == req[s]
        out == process_query(r, rq)
    IN  /\ last' = [kind |-> "query", query |-> r.query, user_id |-> r.user_id,
                    session_id |-> r.session_id, outcome |-> out.kind,
                    status |-> out.status, detail |-> out.detail,
                    response |-> out.response, resp_user |-> out.user_id,
                    resp_session |-> out.session_id, invoked |-> invoked,
                    failure |-> IF rq.kind = "return" /\ rq.response = PyNone
                                THEN "build" ELSE failure]
        /\ req' = [req EXCEPT ![s] = Idle]

\* runner.run on the resolved session, the event loop and the answer.
RunAndFinish(s, actual_session_id) ==
    \E drained \in DrainResults :
        LET rq == run_query_except(run_agent(actual_session_id, drained))
        IN  Finish(s, rq, actual_session_id,
                   IF rq.kind = "HTTPException" THEN "drain" ELSE "none")

InFlight == {s \in Slots : req[s].pc # "idle"}

KnownIds == ClientNames \cup {Uuids[i] : i \in 1..created}

\* POST /query arrives: FastAPI validates the body against QueryRequest and
\* answers 422 itself when it does not validate; otherwise process_query
\* starts and awaits run_query.
Receive(s) ==
    /\ lifecycle = "serving"
    /\ req[s].pc = "idle"
    /\ created + Cardinality(InFlight) < MaxSessions
    /\ \E query \in Queries, user_id \in Users, session_id \in KnownIds :
        IF QueryRequest_valid(query)
        THEN /\ req' = [req EXCEPT ![s] = [pc |-> "run_query", query |-> query,
                            user_id |-> user_id, session_id |-> session_id]]
             /\ UNCHANGED last
        ELSE /\ last' = [NoLast EXCEPT !.kind = "query", !.query = query,
                            !.user_id = user_id, !.session_id = session_id,
                            !.outcome = "RequestValidationError", !.status = 422,
                            !.detail = "validation"]
             /\ UNCHANGED req
    /\ UNCHANGED <<GOOGLE_API_KEY, lifecycle, agent, runner, session_service,
                   initCount, sessions, created, resolved>>
    /\ UNCHANGED <<loopVars, toolVars>>

\* run_query up to its first await and on from it: the guard, then
\* get_session. A stored session is used and the agent runs; a session
\* that is not stored makes the lookup fail (session is None, session.id
\* raises) and create_session is awaited.
GetSession(s) ==
    /\ req[s].pc = "run_query"
    /\ IF not_initialized
       THEN /\ Finish(s, HTTPException(HTTP_500_INTERNAL_SERVER_ERROR,
                                       "Agent not properly initialized"),
                      PyNone, "uninit")
            /\ UNCHANGED resolved
       ELSE IF <<req[s].user_id, req[s].session_id>> \in sessions
       THEN /\ RunAndFinish(s, req[s].session_id)
            /\ resolved' = resolved \cup
                    {<<req[s].user_id, req[s].session_id, req[s].session_id>>}
       ELSE /\ req' = [req EXCEPT ![s].pc = "create_session"]
            /\ UNCHANGED <<last, resolved>>
    /\ UNCHANGED <<GOOGLE_API_KEY, lifecycle, agent, runner, session_service,
                   initCount, sessions, created>>
    /\ UNCHANGED <<loopVars, toolVars>>

\* create_session(app_name, user_id) returns: a session with a generated id
\* is stored and adopted, and the agent runs on it.
CreateSession(s) ==
    /\ req[s].pc = "create_session"
    /\ created < MaxSessions
    /\ LET new_id == Uuids[created + 1]
       IN  /\ sessions' = sessions \cup {<<req[s].user_id, new_id>>}
           /\ created' = created + 1
           /\ resolved' = resolved \cup {<<req[s].user_id, req[s].session_id, new_id>>}
           /\ RunAndFinish(s, new_id)
    /\ UNCHANGED <<GOOGLE_API_KEY, lifecycle, agent, runner, session_service,
                   initCount>>
    /\ UNCHANGED <<loopVars, toolVars>>

\* create_session raises: the exception leaves the inner handler and is
\* caught by the outer except Exception.
CreateSessionFails(s) ==
    /\ req[s].pc = "create_session"
    /\ Finish(s, run_query_except(Raise("create_session")), PyNone, "create")
    /\ UNCHANGED <<GOOGLE_API_KEY, lifecycle, agent, runner, session_service,
                   initCount, sessions, created, resolved>>
    /\ UNCHANGED <<loopVars, toolVars>>

Next ==
    \/ Startup
    \/ \E s \in Slots : Receive(s)
    \/ \E s \in Slots : GetSession(s)
    \/ \E s \in Slots : CreateSession(s)
    \/ \E s \in Slots : CreateSessionFails(s)

Spec == Init /\ [][Next]_vars

(***************************************************************************)
(* The event loop of run_query on every stream the runner can yield.       *)
(***************************************************************************)
LoopSession == "uuid-1"

LoopInit ==
    /\ ApiInit
    /\ GOOGLE_API_KEY
    /\ ToolIdle
    /\ events_in \in EventStreams
    /\ loop_pc = "ready"
    /\ loop_out = NoOutcome

\* run_query from runner.run to its return or its except clause.
RunLoop ==
    /\ loop_pc = "ready"
    /\ loop_out' = run_query_except(run_agent(LoopSession, drain_events(events_in)))
    /\ loop_pc' = "done"
    /\ UNCHANGED <<events_in, apiVars, toolVars>>

LoopNext == RunLoop

LoopSpec == LoopInit /\ [][LoopNext]_vars

(***************************************************************************)
(* The tools of src/weather_agent/agent.py.                                *)
(***************************************************************************)
\* src/weather_agent/agent.py:45 (retries=5)
RETRIES == 5

Latitudes == {-33, 52}
Longitudes == {-70, 13}
Zones == {"America/Santiago", "Europe/Berlin"}
Clock == {0, 1}                       \* datetime.now, to the second
Temperatures == {10, 20}
SeriesStarts == {0, 1}                \* hourly.Time()
Intervals == {0, 1, 2}                \* hourly.Interval()

\* What geolocator.geocode hands back: a location, None or an exception.
GeocodeOutcomes ==
    {[NoExternal EXCEPT !.kind = "value", !.latitude = la, !.longitude = lo] :
        la \in Latitudes, lo \in Longitudes}
    \cup {[NoExternal EXCEPT !.kind = k] : k \in {"none", "exception"}}

\* What tf.timezone_at hands back, with the clock read after it: a zone
\* (one pytz knows, or one it does not and raises on), None or an
\* exception.
TimezoneOutcomes ==
    {[NoExternal EXCEPT !.kind = "value", !.timezone = z, !.time = now] :
        z \in Zones, now \in Clock}
    \cup {[NoExternal EXCEPT !.kind = "unknown_zone", !.timezone = z] : z \in Zones}
    \cup {[NoExternal EXCEPT !.kind = k] : k \in {"none", "exception"}}

\* The hourly block of a forecast response.
ForecastResponses ==
    {[NoExternal EXCEPT !.kind = "response", !.time = t0, !.time_end = t1,
                        !.interval = step, !.values = vs] :
        t0 \in SeriesStarts, step \in Intervals,
        t1 \in 0..(1 + 2 * MaxPoints + 1),
        vs \in SeqsUpTo(Temperatures, MaxPoints)}

Success(coordinates, timezone, local_time, report) ==
    [NoResult EXCEPT !.status = "success", !.coordinates = coordinates,
                     !.timezone = timezone, !.local_time = local_time,
                     !.report = report]

Error(message) == [NoResult EXCEPT !.status = "error", !.error_message = message]

\* An exception that leaves the tool.
Raises(what) == [NoResult EXCEPT !.raised = TRUE, !.error_message = what]

\* get_coordinates with the geocoder's exception left uncaught.
get_coordinates_uncaught(geo) ==
    IF geo.kind = "exception" THEN Raises("geocode")
    ELSE IF geo.kind = "value"
         THEN Success(<<geo.latitude, geo.longitude>>, PyNone, 0, <<>>)
         ELSE Error("Could not find coordinates")

\* get_coordinates, given what geocode handed back.
get_coordinates(geo) ==
    IF geo.kind = "exception" THEN Error("An error occurred")
    ELSE IF geo.kind = "value"
         THEN Success(<<geo.latitude, geo.longitude>>, PyNone, 0, <<>>)
         ELSE Error("Could not find coordinates")

\* get_local_time_info, given what timezone_at handed back.
get_local_time_info(tz) ==
    IF tz.kind \in {"exception", "unknown_zone"}
    THEN Error("Failed to determine timezone or time")
    ELSE IF tz.kind = "none" THEN Error("Could not determine timezone for the coordinates.")
    ELSE Success(<<>>, tz.timezone, tz.time, <<>>)

\* The timestamps start, start + step, ... that are before end.
RangeLength(start, end, step) ==
    IF end <= start THEN 0 ELSE ((end - start - 1) \div step) + 1

\* pd.date_range with both ends included.
date_range_closed(start, end, step) ==
    IF step = 0 THEN [raised |-> TRUE, dates |-> <<>>]
    ELSE LET n == IF end < start THEN 0 ELSE ((end - start) \div step) + 1
         IN  [raised |-> FALSE, dates |-> [k \in 1..n |-> start + (k - 1) * step]]

\* pd.date_range(start, end, freq, inclusive="left"): a zero frequency
\* raises.
date_range(start, end, step) ==
    IF step = 0 THEN [raised |-> TRUE, dates |-> <<>>]
    ELSE [raised |-> FALSE,
          dates |-> [k \in 1..RangeLength(start, end, step) |-> start + (k - 1) * step]]

\* get_weather_forecast from the response on: the date range, the data
\* frame (its columns must have one length) and its records; any
\* exception becomes an error result.
build_report(latitude, longitude, response) ==
    LET dates == date_range(response.time, response.time_end, response.interval)
        temperature_2m == response.values
    IN  IF dates.raised THEN Error("Failed to retrieve weather data")
        ELSE IF Len(dates.dates) # Len(temperature_2m)
        THEN Error("Failed to retrieve weather data")
        ELSE Success(<<latitude, longitude>>, PyNone, 0,
                     [k \in 1..Len(temperature_2m) |->
                        [date |-> dates.dates[k],
                         temperature_2m |-> temperature_2m[k]]])

\* A session that retries once more than configured.
retries_remain_one_more(sent) == sent - 1 <= RETRIES

\* retry(cache_session, retries=5): after `sent` requests, all failed, one
\* more is sent while fewer than RETRIES retries have been made.
retries_remain(sent) == sent - 1 < RETRIES

ToolInit ==
    /\ ApiInit
    /\ GOOGLE_API_KEY
    /\ LoopIdle
    /\ ToolIdle

GetCoordinates ==
    /\ tool_pc = "idle"
    /\ \E geo \in GeocodeOutcomes :
        /\ external' = geo
        /\ tool_result' = get_coordinates(geo)
    /\ tool' = "get_coordinates"
    /\ tool_pc' = "done"
    /\ UNCHANGED <<attempts, apiVars, loopVars>>

GetLocalTimeInfo ==
    /\ tool_pc = "idle"
    /\ \E tz \in TimezoneOutcomes :
        /\ external' = tz
        /\ tool_result' = get_local_time_info(tz)
    /\ tool' = "get_local_time_info"
    /\ tool_pc' = "done"
    /\ UNCHANGED <<attempts, apiVars, loopVars>>

\* get_weather_forecast sends the request through the retrying session.
ForecastCall ==
    /\ tool_pc = "idle"
    /\ tool' = "get_weather_forecast"
    /\ tool_pc' = "fetching"
    /\ attempts' = 1
    /\ UNCHANGED <<external, tool_result, apiVars, loopVars>>

\* The request fails transiently and the session sends it again.
ForecastRetry ==
    /\ tool_pc = "fetching"
    /\ retries_remain(attempts)
    /\ attempts' = attempts + 1
    /\ UNCHANGED <<tool, tool_pc, external, tool_result, apiVars, loopVars>>

\* The request fails transiently with no retry left: the session raises,
\* and the tool's except clause makes an error result of it.
ForecastExhausted ==
    /\ tool_pc = "fetching"
    /\ ~retries_remain(attempts)
    /\ external' = [NoExternal EXCEPT !.kind = "exhausted"]
    /\ tool_result' = Error("Failed to retrieve weather data")
    /\ tool_pc' = "done"
    /\ UNCHANGED <<tool, attempts, apiVars, loopVars>>

\* The request fails for good (an error the session does not retry).
ForecastFails ==
    /\ tool_pc = "fetching"
    /\ external' = [NoExternal EXCEPT !.kind = "exception"]
    /\ tool_result' = Error("Failed to retrieve weather data")
    /\ tool_pc' = "done"
    /\ UNCHANGED <<tool, attempts, apiVars, loopVars>>

\* The provider answers.
ForecastResponds ==
    /\ tool_pc = "fetching"
    /\ \E response \in ForecastResponses, la \in Latitudes, lo \in Longitudes :
        /\ external' = [response EXCEPT !.latitude = la, !.longitude = lo]
        /\ tool_result' = build_report(la, lo, response)
    /\ tool_pc' = "done"
    /\ UNCHANGED <<tool, attempts, apiVars, loopVars>>

\* The agent takes the result.
ToolReturn ==
    /\ tool_pc = "done"
    /\ ~tool_result.raised
    /\ tool' = ""
    /\ tool_pc' = "idle"
    /\ external' = NoExternal
    /\ attempts' = 0
    /\ tool_result' = NoResult
    /\ UNCHANGED <<apiVars, loopVars>>

ToolNext ==
    \/ GetCoordinates
    \/ GetLocalTimeInfo
    \/ ForecastCall
    \/ ForecastRetry
    \/ ForecastExhausted
    \/ ForecastFails
    \/ ForecastResponds
    \/ ToolReturn

ToolSpec == ToolInit /\ [][ToolNext]_vars

(***************************************************************************)
(* Properties.                                                             *)
(***************************************************************************)
Least(S) == CHOOSE i \in S : \A j \in S : i <= j

\* The events flagged as a final response, and those of them that carry
\* content parts.
FinalAt(events) == {i \in 1..Len(events) : events[i].final}
AnswerAt(events) == {i \in FinalAt(events) : events[i].parts}

\* C1: every call of run_query with the same (user_id, session_id) resolves
\* to the same session: the first call creates it, every later call gets
\* it back and creates none.
C1_SameKeySameSession ==
    \A x \in resolved, y \in resolved :
        (x[1] = y[1] /\ x[2] = y[2]) => x[3] = y[3]

\* C2 as claimed: the answer run_query returns is the textual payload of
\* the first event flagged as a final response.
C2_FirstFinalEventAnswers ==
    (loop_pc = "done" /\ loop_out.kind = "return" /\ FinalAt(events_in.events) # {})
        => loop_out.response = events_in.events[Least(FinalAt(events_in.events))].text

\* C2: when some event flagged final carries content parts, run_query
\* returns parts[0].text of the first such event, whatever events follow
\* it and however the stream ends; final events without parts before it
\* are passed over.
C2_FirstFinalEventWithPartsAnswers ==
    (loop_pc = "done" /\ AnswerAt(events_in.events) # {})
        => /\ loop_out.kind = "return"
           /\ loop_out.response = events_in.events[Least(AnswerAt(events_in.events))].text

C2_Witness ==
    /\ loop_pc = "done"
    /\ Len(events_in.events) = 2
    /\ AnswerAt(events_in.events) = {1, 2}
    /\ events_in.events[1].text = "A"
    /\ events_in.events[2].text = "B"
    /\ loop_out.response = "A"

\* C3: a stream that ends with no event flagged final (the empty stream
\* too) makes run_query return the sentinel answer, not an error.
C3_NoFinalEventGivesSentinel ==
    (loop_pc = "done" /\ FinalAt(events_in.events) = {} /\ ~events_in.raises)
        => /\ loop_out.kind = "return"
           /\ loop_out.response = NO_RESPONSE
           /\ loop_out.session_id = LoopSession

C3_Witness ==
    /\ loop_pc = "done"
    /\ Len(events_in.events) = MaxEvents
    /\ FinalAt(events_in.events) = {}
    /\ ~events_in.raises
    /\ loop_out.response = NO_RESPONSE

Descriptive ==
    {"Agent not properly initialized", "Error processing query", "Unexpected error"}

\* C4: a validated POST /query ends in a QueryResponse or in an
\* HTTPException with status 500 and a descriptive detail; every failure
\* on the way ends in the latter, and no other exception reaches the
\* caller.
C4_FailuresAre500 ==
    (last.kind = "query" /\ last.outcome # "RequestValidationError")
        => /\ last.outcome \in {"QueryResponse", "HTTPException"}
           /\ last.outcome = "HTTPException"
                => (last.status = 500 /\ last.detail \in Descriptive)
           /\ last.failure # "none" => last.outcome = "HTTPException"

C4_Witness ==
    /\ last.kind = "query"
    /\ last.failure = "build"
    /\ last.outcome = "HTTPException"
    /\ last.detail = "Unexpected error"

\* C5: a request whose query is the empty string is rejected with a 4xx
\* validation error, and neither the session service nor the runner is
\* invoked for it.
C5_EmptyQueryRejected ==
    /\ \A s \in Slots : req[s].pc # "idle" => req[s].query # ""
    /\ (last.kind = "query" /\ last.query = "")
            => (last.status \in 400..499 /\ last.invoked = PyNone)

Initialized == agent # PyNone /\ runner # PyNone /\ session_service # PyNone

\* C7: the agent, the runner and the session service are constructed once,
\* before any request is served; without the credential the startup fails
\* and nothing is served; every request served sees them initialized.
C7_ServedOnlyInitialized ==
    /\ initCount <= 1
    /\ lifecycle = "serving" => (GOOGLE_API_KEY /\ initCount = 1 /\ Initialized)
    /\ (~GOOGLE_API_KEY /\ lifecycle # "starting") => lifecycle = "failed"
    /\ (InFlight # {} \/ last.kind = "query") => (lifecycle = "serving" /\ Initialized)
    /\ last.failure # "uninit"

C7_Witness ==
    /\ \E s \in Slots : req[s].pc = "run_query"
    /\ last.kind = "query"
    /\ last.outcome = "QueryResponse"
    /\ Initialized

\* C10: the session_id of a successful response is the id of a session the
\* service stores for the request's user_id and the id the runner was
\* invoked with, and the response's user_id is the request's.
C10_ResponseNamesStoredSession ==
    (last.kind = "query" /\ last.outcome = "QueryResponse")
        => /\ <<last.user_id, last.resp_session>> \in sessions
           /\ last.resp_session = last.invoked
           /\ last.resp_user = last.user_id

C10_Witness ==
    /\ last.kind = "query"
    /\ last.outcome = "QueryResponse"
    /\ last.session_id \in ClientNames
    /\ last.resp_session = Uuids[2]
    /\ <<last.user_id, Uuids[2]>> \in sessions

Finished(name) == tool = name /\ tool_pc = "done"

\* C6: whatever the external call hands back, each resolver returns a result
\* whose status is success or error and raises nothing; a failed or empty
\* lookup gives an error result, as does get_local_time_info when no
\* timezone covers the coordinates.
C6_ResolversReturnResults ==
    tool_pc = "done"
        => /\ ~tool_result.raised
           /\ tool_result.status \in {"success", "error"}
           /\ external.kind \in {"none", "exception", "unknown_zone", "exhausted"}
                => tool_result.status = "error"
           /\ (tool \in {"get_coordinates", "get_local_time_info"}
                    /\ external.kind = "value")
                => tool_result.status = "success"

C6_Witness ==
    /\ Finished("get_coordinates")
    /\ external.kind = "exception"
    /\ tool_result.status = "error"

\* C8: when every attempt fails transiently, get_weather_forecast sends the
\* request at most 1 + 5 times, then stops and returns an error result.
C8_RetriesBounded ==
    /\ attempts <= RETRIES + 1
    /\ (Finished("get_weather_forecast") /\ external.kind = "exhausted")
            => /\ attempts = RETRIES + 1
               /\ tool_result.status = "error"
               /\ ~tool_result.raised

C8_Witness ==
    /\ Finished("get_weather_forecast")
    /\ external.kind = "exhausted"
    /\ attempts = 6
    /\ tool_result.status = "error"

\* A response of N values whose series starts at T, steps by I >= 1 and
\* ends at T + N * I.
WellFormed(response) ==
    /\ response.kind = "response"
    /\ response.interval >= 1
    /\ response.time_end = response.time + Len(response.values) * response.interval

\* C9: for such a response get_weather_forecast returns success with exactly
\* N records in order, the k-th with timestamp T + k * I and the k-th
\* value; the end T + N * I is no record.
C9_ReportHasNRecords ==
    (Finished("get_weather_forecast") /\ WellFormed(external))
        => /\ tool_result.status = "success"
           /\ Len(tool_result.report) = Len(external.values)
           /\ \A k \in 0..(Len(external.values) - 1) :
                tool_result.report[k + 1] =
                    [date |-> external.time + k * external.interval,
                     temperature_2m |-> external.values[k + 1]]
           /\ \A k \in 1..Len(tool_result.report) :
                tool_result.report[k].date # external.time_end

C9_Witness ==
    /\ Finished("get_weather_forecast")
    /\ WellFormed(external)
    /\ Len(external.values) = MaxPoints
    /\ external.interval = 2
    /\ external.time = 1
    /\ tool_result.status = "success"
    /\ Len(tool_result.report) = MaxPoints

=============================================================================
